---------------------------- MODULE Spec2Model ----------------------------
(***************************************************************************)
(* The stack-snippets block rule (schema.ts) and the preserve-escape       *)
(* inline rule of Stacks-Editor, as state machines over a markdown-it      *)
(* block state (src lines, blkIndent, line, tokens) and an inline state.   *)
(*                                                                         *)
(* A source line is a record [ws, toks]: its leading whitespace characters *)
(* and the words that follow.  A string that may hold line breaks (a       *)
(* token's content, a node's text) is the sequence of its lines, that is   *)
(* what split("\n") gives: never empty, the empty string being <<"">>.     *)
(***************************************************************************)
EXTENDS Integers, Sequences, FiniteSets, TLC

VARIABLES
    src,        \* StateBlock: the source, as its lines (line i is src[i + 1])
    blkIndent,  \* StateBlock.blkIndent
    line,       \* StateBlock.line, the cursor
    tokens,     \* StateBlock.tokens
    last,       \* the last call of the block rule: its arguments, the state before, the value returned
    metaIn,     \* the meta-lines handed to validateMetaLines
    vres,       \* what validateMetaLines returned for them
    node,       \* the stack_snippet node built from the tokens
    original,   \* the node the first parse of an envelope built
    phase,      \* where the parse-serialize-parse pipeline stands
    inl,        \* StateInline.tokens
    esc         \* the last call of preserveEscapeFn

blockVars == <<src, blkIndent, line, tokens, last>>

validateVars == <<metaIn, vres>>

pipeVars == <<node, original, phase>>

inlineVars == <<inl, esc>>

vars == <<blockVars, validateVars, pipeVars, inlineVars>>

\* ------------------------------------------------------------------ bounds
\* the most lines the rule is given to scan, from the cursor to endLine
MaxLines == 5
\* the most lines the host has consumed before the rule is called
MaxOffset == 1
\* the most meta-lines validateMetaLines is handed, and their greatest index
MaxMeta == 4
MaxIndex == 4
\* the most tokens an inline state holds
MaxInline == 4
\* the most lines between the Begin and the End of a snippet with contents
MaxBody == 5
\* the most content lines an envelope holds, all its language blocks together
MaxContentLines == 3

\* ------------------------------------------------------------ sequences
Last(s) == s[Len(s)]

Front(s) == SubSeq(s, 1, Len(s) - 1)

\* ------------------------------------------------------------------ lines
Space == " "
Tab == "\t"

Tri == {"true", "false", "null"}
Languages == {"js", "css", "html"}

LangWord(l) == CASE l = "js" -> "lang-js"
                 [] l = "css" -> "lang-css"
                 [] l = "html" -> "lang-html"
                 [] OTHER -> "lang-" \o l

Line(ws, toks) == [ws |-> ws, toks |-> toks]

EmptyLine == Line(<<>>, <<>>)

Pad4 == <<Space, Space, Space, Space>>

\* `<!-- begin snippet: js hide: h console: c babel: b babelPresetReact: r babelPresetTS: t -->`
BeginWords(h, c, b, r, t) ==
    <<"<!--", "begin snippet:", "js", "hide:", h, "console:", c, "babel:", b,
      "babelPresetReact:", r, "babelPresetTS:", t, "-->">>

EndWords == <<"<!--", "end snippet", "-->">>

LangWords(l) == <<"<!--", "language:", LangWord(l), "-->">>

\* -------------------------------------------------------------- classifier
\* /^<!-- (?:begin snippet:|end snippet |language:)(.*)-->$/
validSnippetRegex(l) ==
    /\ l.ws = <<>>
    /\ Len(l.toks) >= 3
    /\ l.toks[1] = "<!--"
    /\ l.toks[2] \in {"begin snippet:", "end snippet", "language:"}
    /\ Last(l.toks) = "-->"

\* /^<!-- language: lang-(?<lang>css|html|js) -->/
langSnippetRegex(l) ==
    /\ l.ws = <<>>
    /\ Len(l.toks) >= 4
    /\ l.toks[1] = "<!--"
    /\ l.toks[2] = "language:"
    /\ \E g \in Languages : l.toks[3] = LangWord(g)
    /\ l.toks[4] = "-->"

\* the five fields in the fixed order, each true|false|null, then -->
startSnippetRegex(l) ==
    /\ l.ws = <<>>
    /\ Len(l.toks) >= 14
    /\ SubSeq(l.toks, 1, 4) = <<"<!--", "begin snippet:", "js", "hide:">>
    /\ l.toks[5] \in Tri
    /\ l.toks[6] = "console:"
    /\ l.toks[7] \in Tri
    /\ l.toks[8] = "babel:"
    /\ l.toks[9] \in Tri
    /\ l.toks[10] = "babelPresetReact:"
    /\ l.toks[11] \in Tri
    /\ l.toks[12] = "babelPresetTS:"
    /\ l.toks[13] \in Tri
    /\ l.toks[14] = "-->"

NoAttrs == <<>>

MetaLine(type, index, language, attrs) ==
    [type |-> type, index |-> index, language |-> language, attrs |-> attrs]

NullMeta == MetaLine("null", 0, "", NoAttrs)

\* a Begin's fields, as <<hide, console, babel, babelPresetReact, babelPresetTS>>
mapMetaLine(rawContext) ==
    LET l == rawContext.line
        index == rawContext.index
    IN  IF l = Line(<<>>, EndWords) THEN MetaLine("end", index, "", NoAttrs)
        ELSE IF langSnippetRegex(l)
        THEN MetaLine("lang", index,
                      CHOOSE g \in Languages : l.toks[3] = LangWord(g), NoAttrs)
        ELSE IF startSnippetRegex(l)
        THEN MetaLine("begin", index, "",
                      <<l.toks[5], l.toks[7], l.toks[9], l.toks[11], l.toks[13]>>)
        ELSE NullMeta

\* -------------------------------------------------------------- validator
Undefined == -1

\* JavaScript's truthiness of an index field: undefined and 0 are falsy
Truthy(x) == x /= Undefined /\ x /= 0

NotNull(x) == x /= Undefined

NoReason == "null"

ValidationResult(valid, reason) ==
    [valid |-> valid, reason |-> reason, beginIndex |-> Undefined,
     endIndex |-> Undefined, htmlIndex |-> Undefined, cssIndex |-> Undefined,
     jsIndex |-> Undefined]

\* one turn of the loop's switch: <<returned early, result>>
ValidateStep(vr, m) ==
    CASE m.type = "begin" ->
           IF Truthy(vr.beginIndex)
           THEN <<TRUE, ValidationResult(FALSE, "Duplicate Begin block")>>
           ELSE <<FALSE, [vr EXCEPT !.beginIndex = m.index]>>
      [] m.type = "end" ->
           IF Truthy(vr.endIndex)
           THEN <<TRUE, ValidationResult(FALSE, "Duplicate End block")>>
           ELSE <<FALSE, [vr EXCEPT !.endIndex = m.index]>>
      [] m.type = "lang" /\ m.language = "js" ->
           IF Truthy(vr.jsIndex)
           THEN <<TRUE, ValidationResult(FALSE, "Duplicate JS block")>>
           ELSE <<FALSE, [vr EXCEPT !.jsIndex = m.index]>>
      [] m.type = "lang" /\ m.language = "html" ->
           IF Truthy(vr.htmlIndex)
           THEN <<TRUE, ValidationResult(FALSE, "Duplicate HTML block")>>
           ELSE <<FALSE, [vr EXCEPT !.htmlIndex = m.index]>>
      [] m.type = "lang" /\ m.language = "css" ->
           IF Truthy(vr.cssIndex)
           THEN <<TRUE, ValidationResult(FALSE, "Duplicate CSS block")>>
           ELSE <<FALSE, [vr EXCEPT !.cssIndex = m.index]>>
      [] OTHER -> <<FALSE, vr>>

\* the loop's closing test: a begin and an end have been met
RegionComplete(vr) == NotNull(vr.beginIndex) /\ NotNull(vr.endIndex)

RECURSIVE ValidateFrom(_, _, _)
ValidateFrom(metaLines, i, vr) ==
    IF i > Len(metaLines) THEN vr
    ELSE LET step == ValidateStep(vr, metaLines[i])
         IN  IF step[1] THEN step[2]
             ELSE IF RegionComplete(step[2])
             THEN [step[2] EXCEPT !.valid = TRUE, !.reason = NoReason]
             ELSE ValidateFrom(metaLines, i + 1, step[2])

validateMetaLines(metaLines) ==
    ValidateFrom(metaLines, 1,
                 ValidationResult(FALSE, "Did not discover beginning and end"))


\* ------------------------------------------------------------ block state
\* the first character of the line is `<` (char code 60)
StartsWithLt(l) == l.ws = <<>> /\ l.toks /= <<>> /\ l.toks[1] \in {"<!--", "<div>"}

\* StateBlock.tShift: the number of leading whitespace characters
tShift(l) == Len(l.ws)

RECURSIVE Columns(_, _, _)
\* the column reached after the whitespace ws[i..], tabs going to the next
\* multiple of 4
Columns(ws, i, col) ==
    IF i > Len(ws) THEN col
    ELSE Columns(ws, i + 1, IF ws[i] = Tab THEN col + (4 - (col % 4)) ELSE col + 1)

\* StateBlock.sCount: the indentation with tabs expanded
sCount(l) == Columns(l.ws, 1, 0)

RECURSIVE Spaces(_)
Spaces(n) == IF n <= 0 THEN <<>> ELSE <<Space>> \o Spaces(n - 1)

RECURSIVE StripFrom(_, _, _, _)
\* getLines' inner loop: <<first, lineIndent>> once lineIndent reaches indent
\* or the whitespace ends (bsCount is 0 outside a container)
StripFrom(ws, first, lineIndent, indent) ==
    IF first <= Len(ws) /\ lineIndent < indent
    THEN StripFrom(ws, first + 1,
                   IF ws[first] = Tab THEN lineIndent + (4 - (lineIndent % 4))
                   ELSE lineIndent + 1,
                   indent)
    ELSE <<first, lineIndent>>

\* one line of getLines: up to indent columns of leading whitespace removed
StripLine(l, indent) ==
    LET r == StripFrom(l.ws, 1, 0, indent)
        rest == SubSeq(l.ws, r[1], Len(l.ws))
    IN  Line((IF r[2] > indent THEN Spaces(r[2] - indent) ELSE <<>>) \o rest, l.toks)

\* state.getLines(begin, end, indent, false), begin and end zero-based: the
\* lines begin..end-1 stripped and joined by line breaks; '' when begin >= end
getLines(s, begin, end, indent) ==
    IF begin >= end THEN <<EmptyLine>>
    ELSE [i \in 1..(end - begin) |-> StripLine(s[begin + i], indent)]

\* ----------------------------------------------------------------- tokens
Token(type, tag, nesting) ==
    [type |-> type, tag |-> tag, nesting |-> nesting, content |-> <<EmptyLine>>,
     map |-> <<>>, attrs |-> <<>>]

RECURSIVE attrIndex(_, _, _)
attrIndex(attrs, name, i) ==
    IF i > Len(attrs) THEN 0
    ELSE IF attrs[i][1] = name THEN i ELSE attrIndex(attrs, name, i + 1)

\* Token.attrSet: replace the pair of that name, or push one
attrSet(tok, name, value) ==
    LET i == attrIndex(tok.attrs, name, 1)
    IN  IF i = 0 THEN [tok EXCEPT !.attrs = Append(@, <<name, value>>)]
        ELSE [tok EXCEPT !.attrs[i] = <<name, value>>]

\* Token.attrGet: the value, or null
attrGet(tok, name) ==
    LET i == attrIndex(tok.attrs, name, 1)
    IN  IF i = 0 THEN "null-value" ELSE tok.attrs[i][2]

\* ------------------------------------------------------------- block rule
RECURSIVE CollectRaw(_, _, _)
\* the scan of lines 232-242: the lines i..endLine-1 that start with `<` and
\* pass validSnippetRegex, each with its zero-based index
CollectRaw(s, i, endLine) ==
    IF i >= endLine THEN <<>>
    ELSE (IF StartsWithLt(s[i + 1]) /\ validSnippetRegex(s[i + 1])
          THEN <<[line |-> s[i + 1], index |-> i]>> ELSE <<>>)
         \o CollectRaw(s, i + 1, endLine)

NotNullMeta(m) == m /= NullMeta

\* rawMetaLines.map(mapMetaLine).filter((m) => m != null)
CollectMetaLines(s, startLine, endLine) ==
    LET raw == CollectRaw(s, startLine, endLine)
    IN  SelectSeq([i \in 1..Len(raw) |-> mapMetaLine(raw[i])], NotNullMeta)

IsLang(m) == m.type = "lang"

RECURSIVE InsertByIndex(_, _)
InsertByIndex(sorted, m) ==
    IF sorted = <<>> THEN <<m>>
    ELSE IF m.index < Head(sorted).index THEN <<m>> \o sorted
    ELSE <<Head(sorted)>> \o InsertByIndex(Tail(sorted), m)

RECURSIVE SortByIndex(_)
\* .sort((a, b) => a.index - b.index), stable
SortByIndex(ms) ==
    IF ms = <<>> THEN <<>>
    ELSE InsertByIndex(SortByIndex(Front(ms)), Last(ms))

\* metaLines.filter((m) => m.type == "lang").sort(...)
LangSort(rest) == SortByIndex(SelectSeq(rest, IsLang))

\* every language block taken to run up to the End marker
LangEndMut(langSort, i, end) == end.index

\* langEnd of lines 273-274
LangEnd(langSort, i, end) ==
    IF i = Len(langSort) THEN end.index ELSE langSort[i + 1].index

\* the stack_snippet_lang token of lines 278-287
LangToken(s, langSort, i, end) ==
    LET langEnd == LangEnd(langSort, i, end)
        langBlock == getLines(s, langSort[i].index + 2, langEnd - 1, 4)
        tok == [Token("stack_snippet_lang", "code", 1) EXCEPT
                   !.content = langBlock,
                   !.map = <<langSort[i].index, langEnd>>]
    IN  attrSet(tok, "language", langSort[i].language)

\* the stack_snippet_open token of lines 264-269
OpenToken(begin) ==
    attrSet(attrSet(attrSet(attrSet(attrSet(
        Token("stack_snippet_open", "code", 1),
        "hide", begin.attrs[1]),
        "console", begin.attrs[2]),
        "babel", begin.attrs[3]),
        "babelPresetReact", begin.attrs[4]),
        "babelPresetTS", begin.attrs[5])

\* the tokens pushed by lines 264-289
SnippetTokens(s, begin, langSort, end) ==
    <<OpenToken(begin)>>
    \o [i \in 1..Len(langSort) |-> LangToken(s, langSort, i, end)]
    \o <<Token("stack_snippet_close", "code", -1)>>

Result(ret, toks, ln) == [ret |-> ret, tokens |-> toks, line |-> ln]

\* the early return without its test of silent
SilentOrInvalidMut(silent, validationResult) == ~validationResult.valid

\* the early return of line 248
SilentOrInvalid(silent, validationResult) == silent \/ ~validationResult.valid

\* the open token pushed before the last meta-line is tested
ParseMarkedEager(s, ln, toks, startLine, endLine, silent) ==
    LET metaLines == CollectMetaLines(s, startLine, endLine)
        validationResult == validateMetaLines(metaLines)
    IN  IF SilentOrInvalid(silent, validationResult)
        THEN Result(validationResult.valid, toks, ln)
        ELSE LET begin == Head(metaLines)
                 afterShift == Tail(metaLines)
             IN  IF begin.type /= "begin" THEN Result(FALSE, toks, ln)
                 ELSE LET end == Last(afterShift)
                          rest == Front(afterShift)
                      IN  IF end.type /= "end"
                          THEN Result(FALSE, Append(toks, OpenToken(begin)), ln)
                          ELSE Result(TRUE,
                                      toks \o SnippetTokens(s, begin, LangSort(rest), end),
                                      end.index + 1)

\* lines 244-291, once the opening line has passed
ParseMarked(s, ln, toks, startLine, endLine, silent) ==
    LET metaLines == CollectMetaLines(s, startLine, endLine)
        validationResult == validateMetaLines(metaLines)
    IN  IF SilentOrInvalid(silent, validationResult)
        THEN Result(validationResult.valid, toks, ln)
        ELSE LET begin == Head(metaLines)
                 afterShift == Tail(metaLines)
             IN  IF begin.type /= "begin" THEN Result(FALSE, toks, ln)
                 ELSE LET end == Last(afterShift)
                          rest == Front(afterShift)
                      IN  IF end.type /= "end" THEN Result(FALSE, toks, ln)
                          ELSE Result(TRUE,
                                      toks \o SnippetTokens(s, begin, LangSort(rest), end),
                                      end.index + 1)

\* parseSnippetBlock(state, startLine, endLine, silent) on the state
\* (s, bi, ln, toks): the value returned and the state's tokens and line after
parseSnippetBlock(s, bi, ln, toks, startLine, endLine, silent) ==
    IF sCount(s[startLine + 1]) - bi >= 4 THEN Result(FALSE, toks, ln)
    ELSE IF bi /= 0 \/ tShift(s[startLine + 1]) /= 0 THEN Result(FALSE, toks, ln)
    ELSE IF ~validSnippetRegex(s[startLine + 1]) THEN Result(FALSE, toks, ln)
    ELSE ParseMarked(s, ln, toks, startLine, endLine, silent)

\* ------------------------------------------------------------- the host
\* the lines documents are made of
\* hide, console, babel, babelPresetReact, babelPresetTS
ExampleAttrs == <<"null", "true", "false", "null", "null">>

ExampleBegin == Line(<<>>, BeginWords("null", "true", "false", "null", "null"))

EndLine == Line(<<>>, EndWords)

LangLine(l) == Line(<<>>, LangWords(l))

\* passes validSnippetRegex and is no meta-line
UnknownLangLine == Line(<<>>, <<"<!--", "language:", "lang-foo", "-->">>)

CodeLine == Line(Pad4, <<"a">>)

TextLine == Line(<<>>, <<"a">>)

IndentedLine == Line(<<Space>>, <<"a">>)

\* The scan skips a line that does not start with `<` whatever its
\* indentation, and the rule reads the indentation of its first line only:
\* past the first line, TextLine stands for every such line.
FirstLines ==
    {ExampleBegin, EndLine, LangLine("js"), UnknownLangLine, TextLine, CodeLine,
     IndentedLine}

DocLines == {ExampleBegin, EndLine, LangLine("js"), UnknownLangLine, TextLine}

\* blkIndent in a list item, the column of its content
ListIndent == 2

Paragraph == Token("paragraph", "p", 0)

NoCall ==
    [called |-> FALSE, startLine |-> 0, endLine |-> 0, silent |-> FALSE,
     ret |-> FALSE, preLine |-> 0, preTokens |-> <<>>]

Call(startLine, endLine, silent, ret) ==
    [called |-> TRUE, startLine |-> startLine, endLine |-> endLine,
     silent |-> silent, ret |-> ret, preLine |-> line, preTokens |-> tokens]

\* the parts of the state a specification leaves alone
NoNode == [attrs |-> <<>>, children |-> <<>>]

NoResult == [done |-> FALSE, result |-> ValidationResult(FALSE, NoReason)]

NoEscape ==
    [called |-> FALSE, silent |-> FALSE, escRet |-> FALSE, ret |-> FALSE,
     pre |-> <<>>, mid |-> <<>>]

ValidateIdle == metaIn = <<>> /\ vres = NoResult

PipeIdle == node = NoNode /\ original = NoNode /\ phase = "idle"

InlineIdle == inl = <<>> /\ esc = NoEscape

BlockIdle ==
    src = <<>> /\ blkIndent = 0 /\ line = 0 /\ tokens = <<>> /\ last = NoCall

\* The rule reads no line before startLine and none from endLine on, so a
\* document is the lines the host consumed before the cursor (a paragraph
\* each) followed by the span the rule scans, and endLine is its length.
\* The span is a line of firsts, lengths-many lines of choices, then tail.
InitBlock(firsts, choices, lengths, tail, offsets, indent) ==
    /\ \E k \in offsets : \E f \in firsts : \E n \in lengths :
          \E body \in [1..n -> choices] :
             /\ src = [i \in 1..k |-> TextLine] \o <<f>> \o body \o tail
             /\ line = k
             /\ tokens = [i \in 1..k |-> Paragraph]
    /\ blkIndent = indent
    /\ last = NoCall

\* any span at the top level (or in a blockquote), where blkIndent is 0
InitTopLevel ==
    InitBlock(FirstLines, DocLines, 0..(MaxLines - 1), <<>>, 0..MaxOffset, 0)

\* In a list item the rule returns on blkIndent once it has read the
\* indentation of its first line, so spans of one line cover it.
InitListItem == InitBlock(FirstLines, DocLines, {0}, <<>>, 0..MaxOffset, ListIndent)

Init ==
    /\ InitTopLevel \/ InitListItem
    /\ ValidateIdle /\ PipeIdle /\ InlineIdle

\* the rule called on the state as it is, its tokens and cursor taken over
RunRule(startLine, endLine, silent) ==
    \E r \in {parseSnippetBlock(src, blkIndent, line, tokens, startLine, endLine, silent)} :
        /\ tokens' = r.tokens
        /\ line' = r.line
        /\ last' = Call(startLine, endLine, silent, r.ret)
        /\ UNCHANGED <<src, blkIndent, validateVars, pipeVars, inlineVars>>

\* a rule of the host probes the line at the cursor in trial mode
Probe ==
    /\ line < Len(src)
    /\ RunRule(line, Len(src), TRUE)

\* the block tokenizer runs the rule at the cursor
Commit ==
    /\ line < Len(src)
    /\ RunRule(line, Len(src), FALSE)

Next == Probe \/ Commit

Spec == Init /\ [][Next]_vars

\* ------------------------------------------------- snippets with contents
UnderLine == Line(<<Space, Space>>, <<"a">>)

TabLine == Line(<<Tab, Space>>, <<"b">>)

BodyLines ==
    {EmptyLine, CodeLine, UnderLine, TabLine, LangLine("js"), LangLine("css")}

\* a Begin, any lines, an End
InitContent ==
    /\ InitBlock({ExampleBegin}, BodyLines, 0..MaxBody, <<EndLine>>, {MaxOffset}, 0)
    /\ ValidateIdle /\ PipeIdle /\ InlineIdle

SpecContent == InitContent /\ [][Next]_vars

\* ------------------------------------------- parse, serialize, parse again
\* stackSnippetMarkdownParser.stack_snippet.getAttrs
SnippetAttrs(tok) ==
    [hide |-> attrGet(tok, "hide"), console |-> attrGet(tok, "console"),
     babel |-> attrGet(tok, "babel"),
     babelPresetReact |-> attrGet(tok, "babelPresetReact"),
     babelPresetTS |-> attrGet(tok, "babelPresetTS")]

\* stackSnippetMarkdownParser.stack_snippet_lang: a block with no close
\* token, its attribute and its text taken from the token
LangNode(tok) == [language |-> attrGet(tok, "language"), text |-> tok.content]

IsLangToken(tok) == tok.type = "stack_snippet_lang"

\* the stack_snippet node the tree builder makes of open, langs, close
BuildNode(emitted) ==
    LET langs == SelectSeq(emitted, IsLangToken)
    IN  [attrs |-> SnippetAttrs(emitted[1]),
         children |-> [i \in 1..Len(langs) |-> LangNode(langs[i])]]

\* an attribute's value, "null" when it is absent
assertAttrValue(value) == IF value = "null-value" THEN "null" ELSE value

getSnippetMetadata(n) ==
    [hide |-> assertAttrValue(n.attrs.hide),
     console |-> assertAttrValue(n.attrs.console),
     babel |-> assertAttrValue(n.attrs.babel),
     babelPresetReact |-> assertAttrValue(n.attrs.babelPresetReact),
     babelPresetTS |-> assertAttrValue(n.attrs.babelPresetTS)]

\* (l) => (l !== "" ? "    " + l : l)
PadLine(l) == IF l /= EmptyLine THEN Line(Pad4 \o l.ws, l.toks) ELSE l

\* a language block written with one line break after its marker, not two
SerializeLangNoBlank(langNode) ==
    <<LangLine(assertAttrValue(langNode.language))>>
    \o [i \in 1..Len(langNode.text) |-> PadLine(langNode.text[i])]
    \o <<EmptyLine>>

\* lines 36-46: the marker and a blank line, each line of the text padded
\* and ended by a line break, a blank line
SerializeLang(langNode) ==
    <<LangLine(assertAttrValue(langNode.language)), EmptyLine>>
    \o [i \in 1..Len(langNode.text) |-> PadLine(langNode.text[i])]
    \o <<EmptyLine>>

RECURSIVE SerializeChildren(_)
SerializeChildren(children) ==
    IF children = <<>> THEN <<>>
    ELSE SerializeLang(Head(children)) \o SerializeChildren(Tail(children))

\* stackSnippetMarkdownSerializer.stack_snippet: the lines written
stack_snippet(n) ==
    LET meta == getSnippetMetadata(n)
    IN  <<Line(<<>>, BeginWords(meta.hide, meta.console, meta.babel,
                                meta.babelPresetReact, meta.babelPresetTS)),
          EmptyLine>>
        \o SerializeChildren(n.children)
        \o <<EndLine>>

\* the content lines of envelopes: empty, or padded by 4 columns
DeepLine == Line(Pad4 \o <<Space>>, <<"a">>)

TabCodeLine == Line(<<Tab>>, <<"b">>)

PaddedLines == {EmptyLine, CodeLine, DeepLine, TabCodeLine}

\* the distinct languages, in any order: the blocks of an envelope
LangSeqs ==
    UNION {{ls \in [1..n -> Languages] : \A i, j \in 1..n : i /= j => ls[i] /= ls[j]} :
             n \in 0..Cardinality(Languages)}

\* block i of an envelope: its marker, a blank line, its content lines (the
\* lines of flat between two cuts), a blank line
BlockText(ls, flat, cuts, i) ==
    <<LangLine(ls[i]), EmptyLine>>
    \o SubSeq(flat, (IF i = 1 THEN 0 ELSE cuts[i - 1]) + 1,
              IF i = Len(ls) THEN Len(flat) ELSE cuts[i])
    \o <<EmptyLine>>

RECURSIVE BodyText(_, _, _, _)
BodyText(ls, flat, cuts, i) ==
    IF i > Len(ls) THEN <<>>
    ELSE BlockText(ls, flat, cuts, i) \o BodyText(ls, flat, cuts, i + 1)

\* the envelope of the format: the Begin, a blank line, each language block,
\* the End
Envelope(attrs, ls, flat, cuts) ==
    <<Line(<<>>, BeginWords(attrs[1], attrs[2], attrs[3], attrs[4], attrs[5])),
      EmptyLine>>
    \o BodyText(ls, flat, cuts, 1) \o <<EndLine>>

\* every five tri-state fields on the example's body (a line of js, a line
\* of css), or every body under the example's fields: the content lines of
\* all blocks together are flat, cut into one run for each block
InitEnvelope ==
    \/ \E attrs \in [1..5 -> Tri] :
          src = Envelope(attrs, <<"js", "css">>, <<CodeLine, DeepLine>>, <<1>>)
    \/ \E ls \in LangSeqs : \E n \in 0..MaxContentLines :
          \E flat \in [1..n -> PaddedLines] : \E cuts \in [1..(Len(ls) - 1) -> 0..n] :
             /\ \A i \in 1..(Len(ls) - 2) : cuts[i] <= cuts[i + 1]
             /\ ls = <<>> => n = 0
             /\ src = Envelope(ExampleAttrs, ls, flat, cuts)

InitPipe ==
    /\ InitEnvelope
    /\ blkIndent = 0
    /\ line = 0
    /\ tokens = <<>>
    /\ last = NoCall
    /\ node = NoNode
    /\ original = NoNode
    /\ phase = "source"
    /\ ValidateIdle /\ InlineIdle

\* the document is parsed: the rule runs at line 0 and the tree is built
PipeParse ==
    /\ phase = "source"
    /\ \E r \in {parseSnippetBlock(src, blkIndent, line, tokens, 0, Len(src), FALSE)} :
           /\ tokens' = r.tokens
           /\ line' = r.line
           /\ last' = Call(0, Len(src), FALSE, r.ret)
           /\ node' = IF r.ret THEN BuildNode(r.tokens) ELSE NoNode
           /\ original' = node'
           /\ phase' = IF r.ret THEN "parsed" ELSE "rejected"
    /\ UNCHANGED <<src, blkIndent, validateVars, inlineVars>>

\* the node is serialized, and the text written becomes the document
PipeSerialize ==
    /\ phase = "parsed"
    /\ src' = stack_snippet(node)
    /\ line' = 0
    /\ tokens' = <<>>
    /\ last' = NoCall
    /\ phase' = "serialized"
    /\ UNCHANGED <<blkIndent, node, original, validateVars, inlineVars>>

\* the serialized text is parsed
PipeReparse ==
    /\ phase = "serialized"
    /\ \E r \in {parseSnippetBlock(src, blkIndent, line, tokens, 0, Len(src), FALSE)} :
           /\ tokens' = r.tokens
           /\ line' = r.line
           /\ last' = Call(0, Len(src), FALSE, r.ret)
           /\ node' = IF r.ret THEN BuildNode(r.tokens) ELSE NoNode
           /\ phase' = IF r.ret THEN "reparsed" ELSE "rejected"
    /\ UNCHANGED <<src, blkIndent, original, validateVars, inlineVars>>

NextPipe == PipeParse \/ PipeSerialize \/ PipeReparse

SpecPipe == InitPipe /\ [][NextPipe]_vars

\* ------------------------------------------------- the validator alone
MetaKinds ==
    {<<"begin", "">>, <<"end", "">>, <<"lang", "js">>, <<"lang", "css">>,
     <<"lang", "html">>}

\* the meta-lines of a scan: any kinds, at ascending zero-based line indices
InitValidate ==
    /\ \E n \in 0..MaxMeta :
          \E idx \in [1..n -> 0..MaxIndex] : \E kinds \in [1..n -> MetaKinds] :
             /\ \A i \in 1..(n - 1) : idx[i] < idx[i + 1]
             /\ metaIn = [i \in 1..n |->
                            MetaLine(kinds[i][1], idx[i], kinds[i][2],
                                     IF kinds[i][1] = "begin" THEN ExampleAttrs
                                     ELSE NoAttrs)]
    /\ vres = NoResult
    /\ BlockIdle /\ PipeIdle /\ InlineIdle

Validate ==
    /\ ~vres.done
    /\ vres' = [done |-> TRUE, result |-> validateMetaLines(metaIn)]
    /\ UNCHANGED <<metaIn, blockVars, pipeVars, inlineVars>>

NextValidate == Validate

SpecValidate == InitValidate /\ [][NextValidate]_vars

\* ------------------------------------------------- the escape wrapper
InlineToken(type, info) == [type |-> type, info |-> info]

\* What the wrapped rule, markdown-it's escape, meets at state.pos: no
\* backslash ("none"), a backslash before a line break ("newline") or a
\* backslash before another character ("char").
EscapeInputs == {"none", "newline", "char"}

\* escapeFn(state, silent): it returns false on no match; on a match it
\* returns true and, unless silent, pushes a hardbreak for a backslash
\* before a line break and a text_special with info "escape" otherwise.
escapeFn(toks, silent, what) ==
    CASE what = "none" -> [ret |-> FALSE, tokens |-> toks]
      [] what = "newline" ->
           [ret |-> TRUE,
            tokens |-> IF silent THEN toks
                       ELSE Append(toks, InlineToken("hardbreak", ""))]
      [] what = "char" ->
           [ret |-> TRUE,
            tokens |-> IF silent THEN toks
                       ELSE Append(toks, InlineToken("text_special", "escape"))]

RECURSIVE findLastFrom(_, _)
findLastFrom(toks, i) ==
    IF i = 0 THEN 0
    ELSE IF toks[i].info = "escape" THEN i ELSE findLastFrom(toks, i - 1)

RECURSIVE findFirstFrom(_, _)
findFirstFrom(toks, i) ==
    IF i > Len(toks) THEN 0
    ELSE IF toks[i].info = "escape" THEN i ELSE findFirstFrom(toks, i + 1)

\* state.tokens.find(...): the first match, where the code takes the last
findFirst(toks) == findFirstFrom(toks, 1)

\* state.tokens.findLast((t) => t.info == "escape"): its position, 0 for none
findLast(toks) == findLastFrom(toks, Len(toks))

\* preserveEscapeFn(state, silent): the value returned, the tokens after the
\* wrapped rule (mid) and the tokens at the end
preserveEscapeFn(toks, silent, what) ==
    LET e == escapeFn(toks, silent, what)
        i == findLast(e.tokens)
    IN  IF silent \/ e.ret = FALSE
        THEN [ret |-> e.ret, escRet |-> e.ret, mid |-> e.tokens, tokens |-> e.tokens]
        ELSE [ret |-> e.ret, escRet |-> e.ret, mid |-> e.tokens,
              tokens |-> IF i /= 0 THEN [e.tokens EXCEPT ![i].type = "escape"]
                         ELSE e.tokens]

InitInline ==
    /\ inl = <<>>
    /\ esc = NoEscape
    /\ BlockIdle /\ ValidateIdle /\ PipeIdle

\* the inline tokenizer runs the wrapper, in trial mode or not
PreserveEscape ==
    /\ Len(inl) < MaxInline
    /\ \E silent \in BOOLEAN : \E what \in EscapeInputs :
          LET r == preserveEscapeFn(inl, silent, what)
          IN  /\ inl' = r.tokens
              /\ esc' = [called |-> TRUE, silent |-> silent, escRet |-> r.escRet,
                         ret |-> r.ret, pre |-> inl, mid |-> r.mid]
    /\ UNCHANGED <<blockVars, validateVars, pipeVars>>

\* another inline rule pushes its token: text, or an entity's text_special
OtherInlineRule ==
    /\ Len(inl) < MaxInline
    /\ \E t \in {InlineToken("text", ""), InlineToken("text_special", "entity")} :
          inl' = Append(inl, t)
    /\ esc' = NoEscape
    /\ UNCHANGED <<blockVars, validateVars, pipeVars>>

NextInline == PreserveEscape \/ OtherInlineRule

SpecInline == InitInline /\ [][NextInline]_vars

\* ---------------------------------------------------------------- claims
\* what the last call saw and did
Committed == last.called /\ ~last.silent

Succeeded == Committed /\ last.ret

Emitted == SubSeq(tokens, Len(last.preTokens) + 1, Len(tokens))

Collected == CollectMetaLines(src, last.startLine, last.endLine)

\* C2: a call in trial mode (silent = true) leaves the token stream and the
\* cursor as they were, whether it returns true or false.
C2_TrialModePure ==
    (last.called /\ last.silent) =>
        (tokens = last.preTokens /\ line = last.preLine)

\* a trial call that recognized a snippet, on a state that held tokens
C2_Witness ==
    last.called /\ last.silent /\ last.ret /\ last.preTokens /= <<>>
    /\ last.preLine > 0

\* C3: a successful committing call emits one stack_snippet_open, then zero
\* to three stack_snippet_lang tokens, then one stack_snippet_close, and no
\* two of the stack_snippet_lang tokens carry the same language.
C3_TokenShape ==
    Succeeded =>
        LET e == Emitted
            n == Len(e)
        IN  /\ n >= 2 /\ n <= 5
            /\ e[1].type = "stack_snippet_open"
            /\ e[n].type = "stack_snippet_close"
            /\ \A i \in 2..(n - 1) : e[i].type = "stack_snippet_lang"
            /\ \A i, j \in 2..(n - 1) :
                  i /= j => attrGet(e[i], "language") /= attrGet(e[j], "language")

\* C6: on a successful committing call the first collected meta-line is a
\* Begin, the last is an End, and every one between them is a Lang.
C6_BeginLangsEnd ==
    Succeeded =>
        LET ms == Collected
        IN  /\ Head(ms).type = "begin"
            /\ Last(ms).type = "end"
            /\ \A i \in 2..(Len(ms) - 1) : ms[i].type = "lang"

\* C7: on a successful committing call the cursor is one more than the
\* endIndex validateMetaLines recorded when it declared the region valid.
C7_CursorPastValidatedEnd ==
    Succeeded => line = validateMetaLines(Collected).endIndex + 1

\* C9: the rule returns the same value in trial mode as in committing mode
\* on the same state and arguments.
C9_TrialAgreesWithCommit ==
    last.called =>
        last.ret = parseSnippetBlock(src, blkIndent, last.preLine, last.preTokens,
                                     last.startLine, last.endLine, ~last.silent).ret

\* C10: a committing call that returns false has pushed no token and left
\* the cursor alone; one that returns true has moved the cursor past
\* startLine.
C10_FailureFrameAndProgress ==
    Committed =>
        IF last.ret THEN line > last.startLine
        ELSE tokens = last.preTokens /\ line = last.preLine

\* a committing call rejected after validation had declared the span valid
C10_Witness ==
    Committed /\ ~last.ret /\ validateMetaLines(Collected).valid
    /\ last.preTokens /= <<>>

\* the category a meta-line counts in: begin, end, or its language
Category(m) == IF m.type = "lang" THEN m.language ELSE m.type

\* the positions of meta-lines whose category an earlier one has
Duplicates(ms) ==
    {j \in 1..Len(ms) : \E i \in 1..(j - 1) : Category(ms[i]) = Category(ms[j])}

FirstDuplicate(ms) ==
    CHOOSE j \in Duplicates(ms) : \A k \in Duplicates(ms) : j <= k

DuplicateReason(category) ==
    CASE category = "begin" -> "Duplicate Begin block"
      [] category = "end" -> "Duplicate End block"
      [] category = "js" -> "Duplicate JS block"
      [] category = "html" -> "Duplicate HTML block"
      [] category = "css" -> "Duplicate CSS block"

\* C1: for meta-lines (at any indices, 0 included) that hold two Begin, two
\* End or two Lang of one language, validateMetaLines returns valid = false
\* with the duplicate reason of the first duplicate in source order.
C1_DuplicateRejected ==
    (vres.done /\ Duplicates(metaIn) /= {}) =>
        /\ ~vres.result.valid
        /\ vres.result.reason =
              DuplicateReason(Category(metaIn[FirstDuplicate(metaIn)]))

\* the tokens whose type the wrapper changed after the wrapped rule returned
Retagged == {i \in 1..Len(inl) : inl[i].type /= esc.mid[i].type}

\* the most recent token whose info is "escape", as a set of positions
MostRecentEscape(toks) ==
    {i \in 1..Len(toks) :
        /\ toks[i].info = "escape"
        /\ \A j \in (i + 1)..Len(toks) : toks[j].info /= "escape"}

\* the wrapped rule pushed a token with info "escape" in this call
PushedEscape ==
    Len(esc.mid) = Len(esc.pre) + 1 /\ Last(esc.mid).info = "escape"

\* every call returns what the wrapped rule returned, changes types only,
\* and none in trial mode or when the wrapped rule did not match
C5_Frame ==
    esc.called =>
        /\ esc.ret = esc.escRet
        /\ Len(inl) = Len(esc.mid)
        /\ \A i \in 1..Len(inl) : inl[i].info = esc.mid[i].info
        /\ (esc.silent \/ ~esc.escRet) => Retagged = {}

\* after any sequence of calls the tokens with info "escape" are the tokens
\* of type "escape"
C5_Outcome == \A i \in 1..Len(inl) : inl[i].info = "escape" <=> inl[i].type = "escape"

Dedent(l) ==
    LET reach == {k \in 0..Len(l.ws) : Columns(SubSeq(l.ws, 1, k), 1, 0) >= 4}
        k == IF reach = {} THEN Len(l.ws)
             ELSE CHOOSE m \in reach : \A o \in reach : m <= o
    IN  Line(SubSeq(l.ws, k + 1, Len(l.ws)), l.toks)

\* the source lines from..to-1 (zero-based), dedented; the empty string when
\* there is none
DedentedLines(from, to) ==
    IF from >= to THEN <<EmptyLine>>
    ELSE [k \in 1..(to - from) |-> Dedent(src[from + k])]

\* C8: on a successful committing call the i-th language token, in
\* ascending marker order, holds the source lines from its marker's index
\* + 2 up to, not including, the next Lang marker's index - 1 (the End
\* marker's index - 1 for the last), each with up to 4 leading columns
\* removed and empty lines kept empty; the spans do not overlap.
C8_LangContent ==
    Succeeded =>
        LET ls == SelectSeq(Collected, IsLang)
            endIndex == Last(Collected).index
            e == Emitted
            from(i) == ls[i].index + 2
            to(i) == IF i < Len(ls) THEN ls[i + 1].index - 1 ELSE endIndex - 1
        IN  /\ Len(e) = Len(ls) + 2
            /\ \A i \in 1..Len(ls) :
                  /\ e[i + 1].type = "stack_snippet_lang"
                  /\ attrGet(e[i + 1], "language") = ls[i].language
                  /\ e[i + 1].content = DedentedLines(from(i), to(i))
            /\ \A i, j \in 1..Len(ls) : i < j => to(i) <= from(j)

\* two language tokens, one of them with a line that keeps whitespace
\* beyond the 4 columns removed
C8_Witness ==
    /\ Succeeded
    /\ Len(Emitted) = 4
    /\ \E i \in 2..3 : \E k \in 1..Len(Emitted[i].content) :
          Emitted[i].content[k] = Line(<<Space>>, <<"b">>)

=============================================================================
